---- MODULE Spec2Model ----
(***************************************************************************)
(* Model of the interview coach core: the dialogue orchestrator            *)
(* (utils/owl_utils.py, run_society), the session driver                   *)
(* (interview/coach.py, InterviewCoach) and the web session flow that      *)
(* drives it (web/app.py).                                                 *)
(***************************************************************************)
EXTENDS Integers, Sequences, FiniteSets, TLC

VARIABLES
    \* ---- one run of run_society (its locals and its position) ----
    pc,                   \* "start" | "loop" | "final" | "returned" | "raised"
    prompt,               \* the prompt argument (NoPrompt models None)
    init_msg,             \* the message fed to the next society.step
    round_idx,            \* index of the next iteration of the for loop
    chat_history,         \* sequence of [user, assistant]
    overall_token_count,  \* [prompt_tokens, completion_tokens]
    final_answer,         \* the first element of the returned tuple
    exc,                  \* the exception that ended the run, "none" if none
    \* ---- what the society (Turn Producer) has seen and said ----
    init_calls,           \* arguments of the society.init_chat calls, in order
    step_arg,             \* argument of the latest society.step call
    last_pair,            \* what the latest society.step call returned: <<>> or <<a, u>>
    steps,                \* number of society.step calls made
    first_term,           \* index of the first round a side signalled termination, or -1
    first_asst_term,      \* TRUE iff round 0's assistant response had terminated = true
    sum_prompt,           \* sum of the prompt_tokens the responses carried
    sum_completion,       \* sum of the completion_tokens the responses carried
    malformed,            \* TRUE iff a response lacked an attribute the interface requires
    producer_raised,      \* TRUE iff a society.init_chat or society.step call raised
    devs,                 \* number of response fields that differed from Plain so far
    \* ---- the InterviewCoach object ----
    industry,             \* self.industry
    job_role,             \* self.job_role
    question_count,       \* self.question_count
    questions,            \* self.questions
    current_question_idx, \* self.current_question_idx
    responses,            \* self.responses
    ret,                  \* how the latest InterviewCoach method call ended
    \* ---- the web session (st.session_state) ----
    st_initialized,
    st_current_question_idx,
    st_current_question,
    st_feedback,
    st_interview_complete,
    st_report,
    st_report_path,
    web_ret,              \* how the latest web handler ended
    \* ---- format_feedback applied to a text, and to its own result ----
    fb_pc,                \* "raw" | "once" | "twice": the calls made
    fb_raw,               \* the text given to the first call
    fb_formatted,         \* what the latest call returned
    \* ---- one call of create_interview_prep_plan ----
    plan_pc,              \* "idle" | "called" | "done"
    plan_args,            \* [job_role, company_name, result]: the arguments and what
                          \* the run_society call of line 419 comes to
    plan_result           \* [answer, chat_history, token_count] of the returned dict

runVars == <<pc, prompt, init_msg, round_idx, chat_history, overall_token_count,
             final_answer, exc, init_calls, step_arg, last_pair, steps, first_term,
             first_asst_term, sum_prompt, sum_completion, malformed, producer_raised,
             devs>>

\* the fields of the object
objVars == <<industry, job_role, question_count, questions, current_question_idx,
            responses>>

coachVars == <<objVars, ret>>

webVars == <<st_initialized, st_current_question_idx, st_current_question, st_feedback,
             st_interview_complete, st_report, st_report_path, web_ret>>

fbVars == <<fb_pc, fb_raw, fb_formatted>>

planVars == <<plan_pc, plan_args, plan_result>>

vars == <<runVars, coachVars, webVars, fbVars, planVars>>

-----------------------------------------------------------------------------
(* Bounds and input domains *)

\* at most this many response fields (or producer failures) of one run
\* deviate from the plain response
MaxDeviations == 2

\* a coach driven directly is built with a question budget of 1..MaxCount,
\* moves its cursor at most to MaxCursor and holds at most MaxResponses records
MaxCount == 2
MaxCursor == 3
MaxResponses == 2

\* a web session asks for SliderMin..MaxQuestions questions
MaxQuestions == 5

\* answers typed into the text area; the first two are blank
Answers == {"", " ", "x", "y"}

\* texts a response message can carry
AsstTexts == {"", "a", "b"}
UserTexts == {"", "u"}

\* values a usage payload's field can carry
TokenValues == {1}

\* a prompt argument: None, or a string with its text
NoPrompt == [given |-> FALSE, text |-> ""]
Str(t) == [given |-> TRUE, text |-> t]
Prompts == {NoPrompt, Str(""), Str("task")}

-----------------------------------------------------------------------------
(* Shapes of the objects the Turn Producer hands back *)

\* an attribute the object does not have at all (hasattr is False)
Absent == <<"absent", "">>
\* an attribute whose value is None
None == <<"none", "">>
\* a message object with the given content
Msg(t) == <<"msg", t>>

Content(m) == m[2]

\* an optional dictionary field: {} when the key is missing, {v} when present
Get(opt, default) == IF opt = {} THEN default ELSE CHOOSE v \in opt : TRUE

OptTokens == {{}} \cup {{v} : v \in TokenValues}

\* info shapes: no attribute, None, a dict without "usage",
\* a dict whose "usage" is a dict with optional prompt_tokens/completion_tokens
InfoShapes ==
    {[kind |-> k, p |-> {}, c |-> {}] : k \in {"absent", "none", "dict"}}
    \cup {[kind |-> "usage", p |-> p, c |-> c] : p \in OptTokens, c \in OptTokens}

TermShapes == {"absent", "true", "false"}

ResponsesOf(texts) ==
    [msg : {Absent, None} \cup {Msg(t) : t \in texts},
     info : InfoShapes,
     terminated : TermShapes]

Plain == [msg |-> Msg(""), info |-> [kind |-> "dict", p |-> {}, c |-> {}],
          terminated |-> "false"]

-----------------------------------------------------------------------------
(* run_society, utils/owl_utils.py *)

\* line 27
max_rounds == 15

\* line 32: for round_idx in range(max_rounds)
LoopGuard_offByOne(idx) == idx <= max_rounds

LoopGuard(idx) == idx < max_rounds

\* lines 20-56 hold no try statement: an exception raised in the body ends
\* the run, and the caller gets the exception instead of a result
Uncaught_swallowed(e) == [pc |-> "final", exc |-> "none"]

Uncaught(e) == [pc |-> "raised", exc |-> e]

\* lines 21-24: the argument list of the init_chat call
\* "if prompt:" is false for None and for the empty string
InitChatArgs(pr) == IF pr.given /\ pr.text # "" THEN <<pr.text>> ELSE <<>>

\* the message object society.init_chat builds
InitMsgOf(args) == IF Len(args) = 0 THEN Msg("default opening") ELSE Msg(args[1])

\* lines 37, 41: hasattr(r, "info") and r.info.get("usage")
\* a None info has no .get: AttributeError
InfoRaises(r) == r.info.kind = "none"

\* an empty usage dict is falsy
HasUsage(r) == r.info.kind = "usage" /\ (r.info.p # {} \/ r.info.c # {})

\* lines 38-39 and 42-43
AddUsage_promptTwice(tc, r) ==
    IF HasUsage(r)
    THEN [prompt_tokens |-> tc.prompt_tokens + Get(r.info.p, 0),
          completion_tokens |-> tc.completion_tokens + Get(r.info.p, 0)]
    ELSE tc

AddUsage_overwrite(tc, r) ==
    IF HasUsage(r)
    THEN [prompt_tokens |-> Get(r.info.p, 0), completion_tokens |-> Get(r.info.c, 0)]
    ELSE tc

AddUsage(tc, r) ==
    IF HasUsage(r)
    THEN [prompt_tokens |-> tc.prompt_tokens + Get(r.info.p, 0),
          completion_tokens |-> tc.completion_tokens + Get(r.info.c, 0)]
    ELSE tc

\* lines 47-48: r.msg.content if hasattr(r, "msg") and r.msg else ""
TextOf(r) == IF r.msg[1] = "msg" THEN Content(r.msg) ELSE ""

\* lines 46-49
Turn(a, u) == [user |-> TextOf(u), assistant |-> TextOf(a)]

\* line 52: assistant_response.terminated or user_response.terminated
\* reading a missing attribute raises; "or" reads the user side only when
\* the assistant side is falsy
TermRaises(a, u) ==
    a.terminated = "absent" \/ (a.terminated = "false" /\ u.terminated = "absent")

Breaks_assistantOnly(a, u) == a.terminated = "true"

Breaks_userOnly(a, u) == u.terminated = "true"

Breaks(a, u) == a.terminated = "true" \/ u.terminated = "true"

\* line 56: init_msg = assistant_response.msg
NextMsgRaises(a) == a.msg = Absent

\* line 56: the value the next society.step call is given
NextInput_textOnly(a) == <<"text", Content(a.msg)>>

NextInput(a) == a.msg

\* lines 34-56, one iteration of the loop on the locals
\* st = [chat_history, overall_token_count, init_msg]
RoundBody_breakFirst(st, a, u) ==
    LET base == [exc |-> "none", brk |-> FALSE,
                 chat_history |-> st.chat_history,
                 overall_token_count |-> st.overall_token_count,
                 init_msg |-> st.init_msg]
        raised(r) == [r EXCEPT !.exc = Uncaught("AttributeError").exc]
    IN  IF TermRaises(a, u) THEN raised(base)
        ELSE IF Breaks(a, u) THEN [base EXCEPT !.brk = TRUE]
        ELSE IF InfoRaises(a) THEN raised(base)
        ELSE LET s1 == [base EXCEPT !.overall_token_count = AddUsage(@, a)]
        IN  IF InfoRaises(u) THEN raised(s1)
        ELSE LET s2 == [s1 EXCEPT !.overall_token_count = AddUsage(@, u)]
                 s3 == [s2 EXCEPT !.chat_history = Append(@, Turn(a, u))]
        IN  IF NextMsgRaises(a) THEN raised(s3)
        ELSE [s3 EXCEPT !.init_msg = NextInput(a)]

RoundBody(st, a, u) ==
    LET base == [exc |-> "none", brk |-> FALSE,
                 chat_history |-> st.chat_history,
                 overall_token_count |-> st.overall_token_count,
                 init_msg |-> st.init_msg]
        raised(r) == [r EXCEPT !.exc = Uncaught("AttributeError").exc]
    IN  IF InfoRaises(a) THEN raised(base)
        ELSE LET s1 == [base EXCEPT !.overall_token_count = AddUsage(@, a)]
        IN  IF InfoRaises(u) THEN raised(s1)
        ELSE LET s2 == [s1 EXCEPT !.overall_token_count = AddUsage(@, u)]
                 s3 == [s2 EXCEPT !.chat_history = Append(@, Turn(a, u))]
        IN  IF TermRaises(a, u) THEN raised(s3)
        ELSE IF Breaks(a, u) THEN [s3 EXCEPT !.brk = TRUE]
        ELSE IF NextMsgRaises(a) THEN raised(s3)
        ELSE [s3 EXCEPT !.init_msg = NextInput(a)]

\* lines 59-63: the first non-empty assistant text, scanning backward
RECURSIVE ScanBack(_, _)
ScanBack(h, i) ==
    IF i = 0 THEN ""
    ELSE IF h[i].assistant # "" THEN h[i].assistant
    ELSE ScanBack(h, i - 1)

FinalAnswer_lastTurn(h) == IF Len(h) = 0 THEN "" ELSE h[Len(h)].assistant

FinalAnswer(h) == ScanBack(h, Len(h))

-----------------------------------------------------------------------------
(* What the responses carried, read off the response objects themselves *)

\* the value a response's usage payload carries for a field; 0 without one
Carried(r, field) ==
    IF r.info.kind # "usage" THEN 0
    ELSE IF field = "prompt_tokens" THEN Get(r.info.p, 0) ELSE Get(r.info.c, 0)

\* a response that has every attribute run_society reads unguarded
WellFormed(r) ==
    r.info.kind # "none" /\ r.terminated # "absent" /\ r.msg # Absent

\* number of fields of the pair that differ from the plain response
Dev(a, u) ==
    (IF a.msg # Plain.msg THEN 1 ELSE 0) + (IF a.info # Plain.info THEN 1 ELSE 0)
    + (IF a.terminated # Plain.terminated THEN 1 ELSE 0)
    + (IF u.msg # Plain.msg THEN 1 ELSE 0) + (IF u.info # Plain.info THEN 1 ELSE 0)
    + (IF u.terminated # Plain.terminated THEN 1 ELSE 0)

\* the response pairs a producer with n deviations left can return:
\* PairsTable[n + 1] holds the pairs with at most n deviating fields
RECURSIVE PairsUpTo(_)
PairsUpTo(n) ==
    IF n < 0 THEN <<>>
    ELSE Append(PairsUpTo(n - 1),
                {pr : pr \in {q \in ResponsesOf(AsstTexts) \X ResponsesOf(UserTexts) :
                                  Dev(q[1], q[2]) <= n}})

PairsTable == PairsUpTo(MaxDeviations)

PairsWithin(n) == PairsTable[n + 1]

-----------------------------------------------------------------------------
(* The coach and the web session before they exist *)

\* how a method call ended: the exception it raised, the queries of the
\* run_society calls it made and how the last of them ended, and what it
\* returned
NoRet == [op |-> "none", exc |-> "none", queries |-> <<>>, run_exc |-> "none",
          run_answer |-> "", idx |-> 0, text |-> "", flag |-> FALSE,
          formatted |-> <<>>, responses |-> <<>>, job_role |-> "", industry |-> ""]

NoWebRet == [op |-> "none", outcome |-> "none", exc |-> "none", run_exc |-> "none",
             idx |-> 0]

\* web/app.py lines 35-43
WebIdle ==
    /\ st_initialized = FALSE
    /\ st_current_question_idx = {}
    /\ st_current_question = {}
    /\ st_feedback = {}
    /\ st_interview_complete = FALSE
    /\ st_report = {}
    /\ st_report_path = {}
    /\ web_ret = NoWebRet

\* format_feedback not called
FeedbackIdle ==
    /\ fb_pc = "raw"
    /\ fb_raw = <<>>
    /\ fb_formatted = <<>>

\* create_interview_prep_plan not called
NoPlan == [job_role |-> "", company_name |-> "", result |-> [kind |-> "none"]]
NoPlanResult == [exc |-> "none", answer |-> <<>>, chat_history |-> <<>>, token_count |-> <<>>]

PlanIdle ==
    /\ plan_pc = "idle"
    /\ plan_args = NoPlan
    /\ plan_result = NoPlanResult

\* no coach object yet
CoachIdle ==
    /\ industry = ""
    /\ job_role = ""
    /\ question_count = 0
    /\ questions = <<>>
    /\ current_question_idx = 0
    /\ responses = <<>>
    /\ ret = NoRet

-----------------------------------------------------------------------------
(* The run as a state machine *)

RunInit ==
    /\ pc = "start"
    /\ prompt \in Prompts
    /\ init_msg = None
    /\ round_idx = 0
    /\ chat_history = <<>>
    /\ overall_token_count = [prompt_tokens |-> 0, completion_tokens |-> 0]
    /\ final_answer = ""
    /\ exc = "none"
    /\ init_calls = <<>>
    /\ step_arg = None
    /\ last_pair = <<>>
    /\ steps = 0
    /\ first_term = -1
    /\ first_asst_term = FALSE
    /\ sum_prompt = 0
    /\ sum_completion = 0
    /\ malformed = FALSE
    /\ producer_raised = FALSE
    /\ devs = 0

\* lines 21-29: society.init_chat returns
InitChat ==
    /\ pc = "start"
    /\ init_calls' = Append(init_calls, InitChatArgs(prompt))
    /\ init_msg' = InitMsgOf(InitChatArgs(prompt))
    /\ pc' = "loop"
    /\ UNCHANGED <<coachVars, webVars, fbVars, planVars>>
    /\ UNCHANGED <<prompt, round_idx, chat_history, overall_token_count, final_answer,
                   exc, step_arg, last_pair, steps, first_term, first_asst_term,
                   sum_prompt, sum_completion, malformed, producer_raised, devs>>

\* lines 21-24: society.init_chat raises; nothing catches it
InitChatRaises ==
    /\ pc = "start"
    /\ devs < MaxDeviations
    /\ devs' = devs + 1
    /\ init_calls' = Append(init_calls, InitChatArgs(prompt))
    /\ producer_raised' = TRUE
    /\ pc' = Uncaught("ProducerFailure").pc
    /\ exc' = Uncaught("ProducerFailure").exc
    /\ UNCHANGED <<coachVars, webVars, fbVars, planVars>>
    /\ UNCHANGED <<prompt, init_msg, round_idx, chat_history, overall_token_count,
                   final_answer, step_arg, last_pair, steps, first_term,
                   first_asst_term, sum_prompt, sum_completion, malformed>>

\* lines 32-56: one iteration, society.step returns (a, u), a pair with at
\* most budget deviating fields; the pair is kept in last_pair when observed
StepOf(budget, observed) ==
    /\ pc = "loop"
    /\ LoopGuard(round_idx)
    /\ devs <= budget
    /\ \E pr \in PairsWithin(budget - devs) :
        LET a == pr[1]
            u == pr[2]
            r == RoundBody([chat_history |-> chat_history,
                            overall_token_count |-> overall_token_count,
                            init_msg |-> init_msg], a, u)
        IN  /\ devs' = devs + Dev(a, u)
            /\ step_arg' = init_msg
            /\ last_pair' = IF observed THEN <<a, u>> ELSE last_pair
            /\ steps' = steps + 1
            /\ first_term' = IF first_term = -1 /\ ("true" \in {a.terminated, u.terminated})
                             THEN round_idx ELSE first_term
            /\ first_asst_term' = IF round_idx = 0 THEN a.terminated = "true"
                                  ELSE first_asst_term
            /\ sum_prompt' = sum_prompt + Carried(a, "prompt_tokens")
                                        + Carried(u, "prompt_tokens")
            /\ sum_completion' = sum_completion + Carried(a, "completion_tokens")
                                                + Carried(u, "completion_tokens")
            /\ malformed' = (malformed \/ ~WellFormed(a) \/ ~WellFormed(u))
            /\ chat_history' = r.chat_history
            /\ overall_token_count' = r.overall_token_count
            /\ init_msg' = r.init_msg
            /\ exc' = r.exc
            /\ pc' = IF r.exc # "none" THEN Uncaught(r.exc).pc
                     ELSE IF r.brk THEN "final" ELSE "loop"
            /\ round_idx' = IF r.exc = "none" /\ ~r.brk THEN round_idx + 1 ELSE round_idx
    /\ UNCHANGED <<coachVars, webVars, fbVars, planVars>>
    /\ UNCHANGED <<prompt, final_answer, init_calls, producer_raised>>

\* line 34: society.step raises; nothing catches it
StepRaises ==
    /\ pc = "loop"
    /\ LoopGuard(round_idx)
    /\ devs < MaxDeviations
    /\ devs' = devs + 1
    /\ step_arg' = init_msg
    /\ steps' = steps + 1
    /\ producer_raised' = TRUE
    /\ pc' = Uncaught("ProducerFailure").pc
    /\ exc' = Uncaught("ProducerFailure").exc
    /\ UNCHANGED <<coachVars, webVars, fbVars, planVars>>
    /\ UNCHANGED <<prompt, init_msg, round_idx, chat_history, overall_token_count,
                   final_answer, init_calls, last_pair, first_term, first_asst_term,
                   sum_prompt, sum_completion, malformed>>

\* lines 58-65: the loop is over (break, or the range is exhausted)
Return ==
    /\ pc = "final" \/ (pc = "loop" /\ ~LoopGuard(round_idx))
    /\ final_answer' = FinalAnswer(chat_history)
    /\ pc' = "returned"
    /\ UNCHANGED <<coachVars, webVars, fbVars, planVars>>
    /\ UNCHANGED <<prompt, init_msg, round_idx, chat_history, overall_token_count, exc,
                   init_calls, step_arg, last_pair, steps, first_term, first_asst_term,
                   sum_prompt, sum_completion, malformed, producer_raised, devs>>

Step == StepOf(MaxDeviations, FALSE)

RunNext == InitChat \/ InitChatRaises \/ Step \/ StepRaises \/ Return

RunAlone == RunInit /\ CoachIdle /\ WebIdle /\ FeedbackIdle /\ PlanIdle

SpecRun == RunAlone /\ [][RunNext]_vars

RunDone == pc \in {"returned", "raised"}

\* the same run with the responses of its latest round kept for inspection,
\* against producers with one deviating field fewer
StepObserved == StepOf(MaxDeviations - 1, TRUE)

ObservedNext == InitChat \/ InitChatRaises \/ StepObserved \/ StepRaises \/ Return

SpecObserved == RunAlone /\ [][ObservedNext]_vars

-----------------------------------------------------------------------------
(* run_society as one call: the same loop, run to its end against a scripted
   Turn Producer.  A script says whether init_chat raises and what the
   successive society.step calls do; steps beyond the script return the
   plain pair. *)

Returns(a, u) == [raises |-> FALSE, a |-> a, u |-> u]
Raises == [raises |-> TRUE, a |-> Plain, u |-> Plain]
Says(t, term) == [Plain EXCEPT !.msg = Msg(t), !.terminated = term]

ZeroCount == [prompt_tokens |-> 0, completion_tokens |-> 0]

\* lines 32-56
RECURSIVE RunLoop(_, _, _)
RunLoop(st, idx, script) ==
    IF ~LoopGuard(idx)
    THEN [exc |-> "none", brk |-> FALSE, chat_history |-> st.chat_history,
          overall_token_count |-> st.overall_token_count, init_msg |-> st.init_msg]
    ELSE LET e == IF idx < Len(script.rounds) THEN script.rounds[idx + 1]
                  ELSE Returns(Plain, Plain)
         IN  IF e.raises
             THEN [exc |-> Uncaught("ProducerFailure").exc, brk |-> FALSE,
                   chat_history |-> st.chat_history,
                   overall_token_count |-> st.overall_token_count,
                   init_msg |-> st.init_msg]
             ELSE LET r == RoundBody(st, e.a, e.u)
                  IN  IF r.exc # "none" \/ r.brk THEN r
                      ELSE RunLoop(r, idx + 1, script)

\* lines 6-65: the exception that ended the call, or the returned tuple
run_society(pr, script) ==
    LET noResult(e) == [exc |-> e, final_answer |-> "", chat_history |-> <<>>,
                        token_count |-> ZeroCount]
        end == RunLoop([chat_history |-> <<>>, overall_token_count |-> ZeroCount,
                        init_msg |-> InitMsgOf(InitChatArgs(pr))], 0, script)
    IN  IF script.init_raises THEN noResult(Uncaught("ProducerFailure").exc)
        ELSE IF end.exc # "none" THEN noResult(end.exc)
        ELSE [exc |-> "none", final_answer |-> FinalAnswer(end.chat_history),
              chat_history |-> end.chat_history,
              token_count |-> end.overall_token_count]

\* the Turn Producers the sessions run against: one that never answers nor
\* terminates, one that answers "b" and then terminates with an empty
\* courtesy message, one whose second step fails and one whose init_chat fails
Scripts ==
    {[init_raises |-> FALSE, rounds |-> <<>>],
     [init_raises |-> FALSE,
      rounds |-> <<Returns(Says("b", "false"), Plain),
                   Returns(Says("", "false"), Says("", "true"))>>],
     [init_raises |-> FALSE, rounds |-> <<Returns(Says("a", "false"), Plain), Raises>>],
     [init_raises |-> TRUE, rounds |-> <<>>]}

-----------------------------------------------------------------------------
(* utils/helpers.py: the questions a coach is built from *)

\* get_generic_questions: ten questions
QuestionBank == <<"q1", "q2", "q3", "q4", "q5", "q6", "q7", "q8", "q9", "q10">>

\* load_questions: the lines of the role's file (n of them), or the ten
\* generic questions
load_questions(n) == SubSeq(QuestionBank, 1, n)

\* the lengths of the list load_questions hands a coach built directly, and
\* a web session: a short role file, or ten questions
DriverLoadedLens == {1, Len(QuestionBank)}
WebLoadedLens == {2, Len(QuestionBank)}

\* the industry and job role a coach is built for
Positions == {<<"software", "engineer">>, <<"finance", "analyst">>}

-----------------------------------------------------------------------------
(* interview/feedback.py: format_feedback.  A text is a sequence of tokens:
   the words the patterns look for, other words, " " and "\n", and the
   heading marks "##" and "###". *)

\* the literals of lines 26-50, as tokens
Title == <<"# Interview Response Feedback", "\n", "\n">>
ContentHeading ==
    <<"##", " ", "Content", " ", "Relevance", " ", "and Completeness", "\n">>
TechnicalHeading == <<"##", " ", "Technical", " ", "Accuracy", "\n">>
CommunicationHeading == <<"##", " ", "Communication", " ", "Clarity", "\n">>
StrengthsHeading == <<"##", " ", "Strengths", "\n">>
ImprovementHeading == <<"##", " ", "Areas", " ", "for", " ", "Improvement", "\n">>

Least(S) == CHOOSE x \in S : \A y \in S : x <= y
Greatest(S) == CHOOSE x \in S : \A y \in S : x >= y

\* the tokens text[i..] start with pat
MatchesAt(text, i, pat) ==
    /\ i >= 1
    /\ i + Len(pat) - 1 <= Len(text)
    /\ SubSeq(text, i, i + Len(pat) - 1) = pat

\* line 15, the two operands of `or`: a "###" mark ends in "##"
InH2_lowercase(text) ==
    \E i \in 1..Len(text) :
        text[i] \in {"##", "###"} /\ MatchesAt(text, i + 1, <<" ", "strengths">>)

InH2(text) ==
    \E i \in 1..Len(text) :
        text[i] \in {"##", "###"} /\ MatchesAt(text, i + 1, <<" ", "Strengths">>)
InH3(text) ==
    \E i \in 1..Len(text) : MatchesAt(text, i, <<"###", " ", "Strengths">>)

\* `$` without re.MULTILINE: the end of the text, or just before a newline
\* that ends it
AtEnd(text, p) == p = Len(text) + 1 \/ (p = Len(text) /\ text[p] = "\n")

\* re.search(r"(?:alts)(.*?)(?:terms|$)", text, re.DOTALL): {} for None,
\* {group(1)} for a match.  The leftmost position where an alternative
\* matches, the first alternative that matches there, then the shortest span
\* up to a terminator.
search(alts, terms, text) ==
    LET hit(i) == {k \in 1..Len(alts) : MatchesAt(text, i, alts[k])}
        starts == {i \in 1..Len(text) : hit(i) # {}}
    IN  IF starts = {} THEN {}
        ELSE LET i == Least(starts)
                 e == i + Len(alts[Least(hit(i))])
                 stops == {p \in e..(Len(text) + 1) :
                             \/ AtEnd(text, p)
                             \/ p <= Len(text) /\ text[p] \in terms}
             IN  {SubSeq(text, e, Least(stops) - 1)}

\* str.strip()
strip(text) ==
    LET keep == {i \in 1..Len(text) : text[i] \notin {" ", "\n"}}
    IN  IF keep = {} THEN <<>> ELSE SubSeq(text, Least(keep), Greatest(keep))

\* lines 28-46: one `if match:` block
Block(heading, match) ==
    IF match = {} THEN <<>>
    ELSE heading \o strip(CHOOSE g \in match : TRUE) \o <<"\n", "\n">>

\* lines 19-23
content_match(text) ==
    search(<<<<"Content", " ", "relevance">>, <<"Content">>, <<"Relevance">>>>,
           {"Technical", "Communication", "Strengths", "Areas"}, text)
technical_match(text) ==
    search(<<<<"Technical", " ", "accuracy">>, <<"Technical">>>>,
           {"Communication", "Strengths", "Areas"}, text)
communication_match(text) ==
    search(<<<<"Communication", " ", "clarity">>, <<"Communication">>>>,
           {"Strengths", "Areas"}, text)
strengths_match(text) ==
    search(<<<<"Strengths">>>>, {"Areas", "Improvement"}, text)
improvement_match(text) ==
    search(<<<<"Areas", " ", "for", " ", "improvement">>, <<"Improvement">>,
             <<"Weaknesses">>, <<"Areas">>>>, {}, text)

\* lines 25-46: the blocks of the sections found, in the order the code
\* appends them
Sections_strengthsFirst(raw_feedback) ==
    Block(StrengthsHeading, strengths_match(raw_feedback))
    \o Block(ContentHeading, content_match(raw_feedback))
    \o Block(TechnicalHeading, technical_match(raw_feedback))
    \o Block(CommunicationHeading, communication_match(raw_feedback))
    \o Block(ImprovementHeading, improvement_match(raw_feedback))

Sections(raw_feedback) ==
    Block(ContentHeading, content_match(raw_feedback))
    \o Block(TechnicalHeading, technical_match(raw_feedback))
    \o Block(CommunicationHeading, communication_match(raw_feedback))
    \o Block(StrengthsHeading, strengths_match(raw_feedback))
    \o Block(ImprovementHeading, improvement_match(raw_feedback))

\* lines 4-52
format_feedback_noFallback(raw_feedback) ==
    IF InH2(raw_feedback) \/ InH3(raw_feedback) THEN raw_feedback
    ELSE Title \o Sections(raw_feedback)

format_feedback(raw_feedback) ==
    IF InH2(raw_feedback) \/ InH3(raw_feedback) THEN raw_feedback
    ELSE LET formatted_feedback == Title \o Sections(raw_feedback)
         IN  IF formatted_feedback = Title THEN Title \o raw_feedback
             ELSE formatted_feedback

-----------------------------------------------------------------------------
(* InterviewCoach, interview/coach.py  (c is the object's state) *)

\* line 102 and line 148: the ways the run_society call can end
FeedbackRuns == {run_society(Str("feedback query"), script) : script \in Scripts}
ReportRuns == {run_society(Str("report query"), script) : script \in Scripts}

\* a Python slice list[:n], n >= 0
Slice(list, n) == SubSeq(list, 1, IF n < Len(list) THEN n ELSE Len(list))

\* a Python subscript list[i]: negative indexes count from the end
IndexValid(list, i) == -Len(list) <= i /\ i < Len(list)
Subscript(list, i) == IF i >= 0 THEN list[i + 1] ELSE list[Len(list) + i + 1]

\* lines 16-37
new_coach(ind, role, count, loaded) ==
    [industry |-> ind,
     job_role |-> role,
     question_count |-> count,
     questions |-> Slice(load_questions(loaded), count),
     current_question_idx |-> 0,
     responses |-> <<>>]

\* lines 39-48
get_current_question_keepsIndex(c) ==
    IF c.current_question_idx < Len(c.questions)
    THEN <<c.current_question_idx, c.questions[c.current_question_idx + 1]>>
    ELSE <<c.current_question_idx, "Interview complete">>

get_current_question(c) ==
    IF c.current_question_idx < Len(c.questions)
    THEN <<c.current_question_idx, c.questions[c.current_question_idx + 1]>>
    ELSE <<-1, "Interview complete">>

\* lines 50-58: the object after the call; the call returns
\* get_current_question of it
get_next_question_saturating(c) ==
    IF c.current_question_idx < Len(c.questions)
    THEN [c EXCEPT !.current_question_idx = @ + 1]
    ELSE c

get_next_question_skipping(c) == [c EXCEPT !.current_question_idx = @ + 2]

get_next_question(c) == [c EXCEPT !.current_question_idx = @ + 1]

\* lines 60-67
is_interview_complete_strict(c) == c.current_question_idx > Len(c.questions)

is_interview_complete_byBudget(c) == c.current_question_idx >= c.question_count

is_interview_complete(c) == c.current_question_idx >= Len(c.questions)

\* the words of the texts the Turn Producers of Scripts say
Words(text) ==
    CASE text = "" -> <<>>
      [] text = "b" -> <<"Strengths", " ", "w", "\n", "Content", " ", "w">>
      [] OTHER -> <<"w">>

\* line 105 for each text a run of Scripts can return
FormattedTexts == {<<text, format_feedback(Words(text))>> : text \in AsstTexts}

\* lines 84-99: what the query of process_response embeds
feedback_query(c, question, response_text) ==
    [kind |-> "feedback", job_role |-> c.job_role, industry |-> c.industry,
     question |-> question, response |-> response_text]

\* lines 128-145: what the query of generate_final_report embeds
report_query(c) ==
    [kind |-> "report", job_role |-> c.job_role, industry |-> c.industry,
     responses |-> c.responses]

\* lines 69-118, where run is what the call of line 102 comes to:
\* [coach: the object after the call, exc: the exception the call raised or
\* "none", queries: the queries of the run_society calls made, run_exc and
\* run_answer: how the run_society call ended, raw_feedback and
\* formatted_feedback: the values returned under those keys]
process_response_unformatted(c, question_idx, response_text, run) ==
    IF ~IndexValid(c.questions, question_idx)
    THEN [coach |-> c, exc |-> "IndexError", queries |-> <<>>, run_exc |-> "none",
          run_answer |-> "", raw_feedback |-> "", formatted_feedback |-> <<>>]
    ELSE LET question == Subscript(c.questions, question_idx)
             query == feedback_query(c, question, response_text)
         IN  IF run.exc # "none"
             THEN [coach |-> c, exc |-> run.exc, queries |-> <<query>>,
                   run_exc |-> run.exc, run_answer |-> "", raw_feedback |-> "",
                   formatted_feedback |-> <<>>]
             ELSE [coach |-> [c EXCEPT !.responses =
                                 Append(@, [question_idx |-> question_idx,
                                            question |-> question,
                                            response |-> response_text,
                                            feedback |-> run.final_answer])],
                   exc |-> "none", queries |-> <<query>>, run_exc |-> "none",
                   run_answer |-> run.final_answer,
                   raw_feedback |-> run.final_answer,
                   formatted_feedback |-> Words(run.final_answer)]

process_response_recordsFailure(c, question_idx, response_text, run) ==
    IF ~IndexValid(c.questions, question_idx)
    THEN [coach |-> c, exc |-> "IndexError", queries |-> <<>>, run_exc |-> "none",
          run_answer |-> "", raw_feedback |-> "", formatted_feedback |-> <<>>]
    ELSE LET question == Subscript(c.questions, question_idx)
             query == feedback_query(c, question, response_text)
             raw_feedback == IF run.exc # "none" THEN "" ELSE run.final_answer
             recorded == [c EXCEPT !.responses =
                             Append(@, [question_idx |-> question_idx,
                                        question |-> question,
                                        response |-> response_text,
                                        feedback |-> raw_feedback])]
         IN  IF run.exc # "none"
             THEN [coach |-> recorded, exc |-> run.exc, queries |-> <<query>>,
                   run_exc |-> run.exc, run_answer |-> "", raw_feedback |-> "",
                   formatted_feedback |-> <<>>]
             ELSE [coach |-> recorded,
                   exc |-> "none", queries |-> <<query>>, run_exc |-> "none",
                   run_answer |-> run.final_answer,
                   raw_feedback |-> raw_feedback,
                   formatted_feedback |->
                       (CHOOSE f \in FormattedTexts : f[1] = raw_feedback)[2]]

process_response(c, question_idx, response_text, run) ==
    IF ~IndexValid(c.questions, question_idx)
    THEN [coach |-> c, exc |-> "IndexError", queries |-> <<>>, run_exc |-> "none",
          run_answer |-> "", raw_feedback |-> "", formatted_feedback |-> <<>>]
    ELSE LET question == Subscript(c.questions, question_idx)
             query == feedback_query(c, question, response_text)
         IN  IF run.exc # "none"
             THEN [coach |-> c, exc |-> run.exc, queries |-> <<query>>,
                   run_exc |-> run.exc, run_answer |-> "", raw_feedback |-> "",
                   formatted_feedback |-> <<>>]
             ELSE LET raw_feedback == run.final_answer
                      formatted_feedback ==
                          (CHOOSE f \in FormattedTexts : f[1] = raw_feedback)[2]
                  IN  [coach |-> [c EXCEPT !.responses =
                                      Append(@, [question_idx |-> question_idx,
                                                 question |-> question,
                                                 response |-> response_text,
                                                 feedback |-> raw_feedback])],
                       exc |-> "none", queries |-> <<query>>, run_exc |-> "none",
                       run_answer |-> run.final_answer,
                       raw_feedback |-> raw_feedback,
                       formatted_feedback |-> formatted_feedback]

\* lines 120-155, where run is what the call of line 148 comes to:
\* [exc, queries, run_exc, run_answer, and the values returned under the
\* keys report, responses, job_role and industry]
generate_final_report_latestOnly(c, run) ==
    LET query == [report_query(c) EXCEPT
                     !.responses = IF c.responses = <<>> THEN <<>>
                                   ELSE <<c.responses[Len(c.responses)]>>]
    IN  IF run.exc # "none"
        THEN [exc |-> run.exc, queries |-> <<query>>, run_exc |-> run.exc,
              run_answer |-> "", report |-> "", responses |-> <<>>, job_role |-> "",
              industry |-> ""]
        ELSE [exc |-> "none", queries |-> <<query>>, run_exc |-> "none",
              run_answer |-> run.final_answer, report |-> run.final_answer,
              responses |-> query.responses, job_role |-> c.job_role,
              industry |-> c.industry]

generate_final_report(c, run) ==
    LET query == report_query(c)
    IN  IF run.exc # "none"
        THEN [exc |-> run.exc, queries |-> <<query>>, run_exc |-> run.exc,
              run_answer |-> "", report |-> "", responses |-> <<>>, job_role |-> "",
              industry |-> ""]
        ELSE [exc |-> "none", queries |-> <<query>>, run_exc |-> "none",
              run_answer |-> run.final_answer, report |-> run.final_answer,
              responses |-> c.responses, job_role |-> c.job_role,
              industry |-> c.industry]

-----------------------------------------------------------------------------
(* A coach driven directly through its methods, in any order *)

Coach == [industry |-> industry, job_role |-> job_role,
          question_count |-> question_count, questions |-> questions,
          current_question_idx |-> current_question_idx, responses |-> responses]

SetCoach(c) ==
    /\ industry' = c.industry
    /\ job_role' = c.job_role
    /\ question_count' = c.question_count
    /\ questions' = c.questions
    /\ current_question_idx' = c.current_question_idx
    /\ responses' = c.responses

\* the answers given to a coach driven directly
DriverAnswers == {"x"}

RunIdle == RunInit /\ prompt = NoPrompt

DriverInit ==
    /\ RunIdle
    /\ WebIdle
    /\ FeedbackIdle
    /\ PlanIdle
    /\ \E position \in Positions, count \in 1..MaxCount, loaded \in DriverLoadedLens :
        LET c == new_coach(position[1], position[2], count, loaded)
        IN  /\ industry = c.industry
            /\ job_role = c.job_role
            /\ question_count = c.question_count
            /\ questions = c.questions
            /\ current_question_idx = c.current_question_idx
            /\ responses = c.responses
    /\ ret = NoRet

GetCurrentQuestion ==
    /\ ret' = [NoRet EXCEPT !.op = "get_current_question",
                            !.idx = get_current_question(Coach)[1],
                            !.text = get_current_question(Coach)[2]]
    /\ UNCHANGED objVars
    /\ UNCHANGED <<runVars, webVars, fbVars, planVars>>

GetNextQuestion ==
    /\ current_question_idx < MaxCursor
    /\ LET c == get_next_question(Coach)
       IN  /\ SetCoach(c)
           /\ ret' = [NoRet EXCEPT !.op = "get_next_question",
                                   !.idx = get_current_question(c)[1],
                                   !.text = get_current_question(c)[2]]
    /\ UNCHANGED <<runVars, webVars, fbVars, planVars>>

IsInterviewComplete ==
    /\ ret' = [NoRet EXCEPT !.op = "is_interview_complete",
                            !.flag = is_interview_complete(Coach)]
    /\ UNCHANGED objVars
    /\ UNCHANGED <<runVars, webVars, fbVars, planVars>>

ProcessResponse ==
    /\ Len(responses) < MaxResponses
    /\ \E question_idx \in (-(MaxCount + 1))..MaxCount, response_text \in DriverAnswers,
          run \in FeedbackRuns :
        LET r == process_response(Coach, question_idx, response_text, run)
        IN  /\ SetCoach(r.coach)
            /\ ret' = [NoRet EXCEPT !.op = "process_response", !.exc = r.exc,
                                    !.queries = r.queries, !.run_exc = r.run_exc,
                                    !.run_answer = r.run_answer,
                                    !.idx = question_idx, !.text = r.raw_feedback,
                                    !.formatted = r.formatted_feedback]
    /\ UNCHANGED <<runVars, webVars, fbVars, planVars>>

\* how a generate_final_report call that came to r ended
ReportRet(r) ==
    [NoRet EXCEPT !.op = "generate_final_report", !.exc = r.exc,
                  !.queries = r.queries, !.run_exc = r.run_exc,
                  !.run_answer = r.run_answer, !.text = r.report,
                  !.responses = r.responses, !.job_role = r.job_role,
                  !.industry = r.industry]

GenerateFinalReport ==
    /\ \E run \in ReportRuns :
        LET r == generate_final_report(Coach, run)
        IN  ret' = ReportRet(r)
    /\ UNCHANGED objVars
    /\ UNCHANGED <<runVars, webVars, fbVars, planVars>>

DriverNext ==
    \/ GetCurrentQuestion
    \/ GetNextQuestion
    \/ IsInterviewComplete
    \/ ProcessResponse
    \/ GenerateFinalReport

SpecDriver == DriverInit /\ [][DriverNext]_vars

-----------------------------------------------------------------------------
(* The web session, web/app.py.  An optional session value is {} for None
   and {v} for the value v. *)

\* web/components.py line 34: the smallest question count the slider offers
SliderMin == 3

\* line 75: not response or response.strip() == ""
IsBlank(response) == response \in {"", " "}

\* lines 45-64
InitializeInterview ==
    /\ \E position \in Positions, count \in SliderMin..MaxQuestions,
          loaded \in WebLoadedLens :
        LET c == new_coach(position[1], position[2], count, loaded)
            q == get_current_question(c)
        IN  /\ SetCoach(c)
            /\ st_current_question_idx' = {q[1]}
            /\ st_current_question' = {q[2]}
    /\ st_initialized' = TRUE
    /\ st_feedback' = {}
    /\ st_interview_complete' = FALSE
    /\ st_report' = {}
    /\ st_report_path' = {}
    /\ ret' = NoRet
    /\ web_ret' = [NoWebRet EXCEPT !.op = "initialize_interview", !.outcome = "done"]
    /\ UNCHANGED <<runVars, fbVars, planVars>>

\* lines 66-104, the whole handler; frun and rrun are what the run_society
\* calls of process_response and generate_final_report come to
SubmitResponse ==
    \E response \in Answers, frun \in FeedbackRuns, rrun \in ReportRuns :
        LET idx == Get(st_current_question_idx, 0)
            done(outcome, e, re) ==
                [NoWebRet EXCEPT !.op = "submit_response", !.outcome = outcome,
                                 !.exc = e, !.run_exc = re, !.idx = idx]
            fb == process_response(Coach, idx, response, frun)
            c2 == get_next_question(fb.coach)
            q == get_current_question(c2)
            rep == generate_final_report(c2, rrun)
        IN  /\ UNCHANGED <<runVars, fbVars, planVars>>
            /\ IF ~st_initialized \/ st_interview_complete
               THEN \* lines 68-69
                    /\ web_ret' = done("ignored", "none", "none")
                    /\ ret' = ret
                    /\ UNCHANGED <<objVars, st_initialized, st_current_question_idx,
                                   st_current_question, st_feedback,
                                   st_interview_complete, st_report, st_report_path>>
               ELSE IF IsBlank(response)
               THEN \* lines 75-77
                    /\ web_ret' = done("rejected", "none", "none")
                    /\ ret' = ret
                    /\ UNCHANGED <<objVars, st_initialized, st_current_question_idx,
                                   st_current_question, st_feedback,
                                   st_interview_complete, st_report, st_report_path>>
               ELSE IF fb.exc # "none"
               THEN \* lines 82-85: process_response raises, the handler with it
                    /\ web_ret' = done("raised", fb.exc, fb.run_exc)
                    /\ ret' = [NoRet EXCEPT !.op = "process_response", !.exc = fb.exc,
                                            !.queries = fb.queries,
                                            !.run_exc = fb.run_exc, !.idx = idx]
                    /\ UNCHANGED <<objVars, st_initialized, st_current_question_idx,
                                   st_current_question, st_feedback,
                                   st_interview_complete, st_report, st_report_path>>
               ELSE \* lines 86-91
                    /\ st_feedback' = {[raw_feedback |-> fb.raw_feedback,
                                      formatted_feedback |-> fb.formatted_feedback]}
                    /\ SetCoach(c2)
                    /\ st_current_question_idx' = {q[1]}
                    /\ st_current_question' = {q[2]}
                    /\ UNCHANGED st_initialized
                    /\ IF ~is_interview_complete(c2)
                       THEN /\ web_ret' = done("done", "none", "none")
                            /\ ret' = [NoRet EXCEPT !.op = "is_interview_complete"]
                            /\ UNCHANGED <<st_interview_complete, st_report,
                                           st_report_path>>
                       ELSE \* lines 94-104
                            /\ st_interview_complete' = TRUE
                            /\ ret' = ReportRet(rep)
                            /\ IF rep.exc # "none"
                               THEN /\ web_ret' = done("raised", rep.exc, rep.run_exc)
                                    /\ UNCHANGED <<st_report, st_report_path>>
                               ELSE /\ web_ret' = done("done", "none", "none")
                                    /\ st_report' = {[report |-> rep.report,
                                                      responses |-> rep.responses,
                                                      job_role |-> rep.job_role,
                                                      industry |-> rep.industry]}
                                    /\ st_report_path' = {"output/report.txt"}

WebNext == InitializeInterview \/ SubmitResponse

WebInit == RunIdle /\ CoachIdle /\ WebIdle /\ FeedbackIdle /\ PlanIdle

SpecWeb == WebInit /\ [][WebNext]_vars

-----------------------------------------------------------------------------
(* format_feedback applied to each text of a bounded set *)

\* the longest text given
MaxTextLen == 4

InputTokens ==
    {"w", " ", "\n", "##", "###", "Content", "relevance", "Technical",
     "Communication", "Strengths", "Areas"}

Texts == UNION {[1..n -> InputTokens] : n \in 0..MaxTextLen}

FeedbackInit ==
    /\ RunIdle
    /\ CoachIdle
    /\ WebIdle
    /\ PlanIdle
    /\ fb_pc = "raw"
    /\ fb_raw \in Texts
    /\ fb_formatted = <<>>

FormatFeedback ==
    /\ fb_pc = "raw"
    /\ fb_formatted' = format_feedback(fb_raw)
    /\ fb_pc' = "once"
    /\ UNCHANGED <<fb_raw, runVars, coachVars, webVars, planVars>>

FormatAgain ==
    /\ fb_pc = "once"
    /\ fb_formatted' = format_feedback(fb_formatted)
    /\ fb_pc' = "twice"
    /\ UNCHANGED <<fb_raw, runVars, coachVars, webVars, planVars>>

\* one call
SpecFeedback == FeedbackInit /\ [][FormatFeedback]_vars

\* a call, then a call on its result
FeedbackTwiceNext == FormatFeedback \/ FormatAgain

SpecFeedbackTwice == FeedbackInit /\ [][FeedbackTwiceNext]_vars

-----------------------------------------------------------------------------
(* owl_interview_assistant/main.py: create_interview_prep_plan.  result is
   what the run_society call of line 419 comes to: an exception, None, or
   the tuple (answer, chat_history, token_count).  A text built by an
   f-string is the sequence of its parts. *)

\* lines 426 and 434
FallbackAnswer(role, company_name) ==
    <<"I've prepared a basic interview preparation plan for ", role, " at ",
      company_name, ". Please check the interview_prep directory for details.">>

\* lines 428 and 436
FallbackTokenCount == [prompt_token_count |-> 0, completion_token_count |-> 0]

\* lines 417-436 and the keys answer, chat_history and token_count of the
\* dict returned at lines 462-468
create_interview_prep_plan(role, company_name, result) ==
    IF result.kind \in {"raises", "none"}
    THEN [exc |-> "none",
          answer |-> FallbackAnswer(role, company_name),
          chat_history |-> <<>>,
          token_count |-> FallbackTokenCount]
    ELSE [exc |-> "none",
          answer |-> <<result.answer>>,
          chat_history |-> result.chat_history,
          token_count |-> result.token_count]

\* what a run_society call can come to
PlanRuns ==
    {[kind |-> "raises", exc |-> e] : e \in {"ProducerFailure", "AttributeError"}}
        \cup {[kind |-> "none"]}
        \cup {[kind |-> "tuple", answer |-> t, chat_history |-> h, token_count |-> k] :
                 t \in AsstTexts,
                 h \in {<<>>, <<[user |-> "", assistant |-> "a"]>>},
                 k \in [{"prompt_tokens", "completion_tokens"} -> 0..1]}

PlanInit ==
    /\ RunIdle
    /\ CoachIdle
    /\ WebIdle
    /\ FeedbackIdle
    /\ plan_pc = "called"
    /\ plan_args \in {[job_role |-> p[2], company_name |-> c, result |-> r] :
                         p \in Positions, c \in {"Acme", "Initech"}, r \in PlanRuns}
    /\ plan_result = NoPlanResult

CreateInterviewPrepPlan ==
    /\ plan_pc = "called"
    /\ plan_result' = create_interview_prep_plan(plan_args.job_role,
                                                 plan_args.company_name, plan_args.result)
    /\ plan_pc' = "done"
    /\ UNCHANGED <<plan_args, runVars, coachVars, webVars, fbVars>>

SpecPlan == PlanInit /\ [][CreateInterviewPrepPlan]_vars

-----------------------------------------------------------------------------
(* Properties of run_society *)

Min(x, y) == IF x < y THEN x ELSE y

\* a natural number every step of a run decreases
RunMeasure ==
    2 * (max_rounds - steps)
    + (CASE pc = "start" -> 4 [] pc = "loop" -> 3 [] pc = "final" -> 2 [] OTHER -> 1)

C2_UsageIsExactSum ==
    pc = "returned" =>
        /\ overall_token_count.prompt_tokens = sum_prompt
        /\ overall_token_count.completion_tokens = sum_completion

C2_Witness ==
    /\ pc = "returned"
    /\ Len(chat_history) >= 3
    /\ sum_prompt = 2
    /\ sum_completion = 1

\* C3: no society.step call follows a round in which a side signalled
\* termination, and a run that returns has executed exactly
\* min(index of the first terminating round + 1, max_rounds) rounds.
C3_StopsAtFirstTermination ==
    /\ first_term # -1 => (steps = first_term + 1 /\ pc # "loop")
    /\ pc = "returned" =>
        /\ steps = (IF first_term = -1 THEN max_rounds
                    ELSE Min(first_term + 1, max_rounds))
        /\ Len(chat_history) = steps

C3_Witness ==
    pc = "returned" /\ first_term = 3 /\ steps = 4 /\ ~first_asst_term

\* C4: the returned final answer is the assistant text of the latest turn
\* whose assistant text is non-empty, and "" when every turn's is empty.
C4_LatestNonEmptyAssistant ==
    pc = "returned" =>
        LET said == {i \in 1..Len(chat_history) : chat_history[i].assistant # ""}
        IN  IF said = {} THEN final_answer = ""
            ELSE final_answer =
                 chat_history[CHOOSE i \in said : \A j \in said : j <= i].assistant

C4_Witness ==
    /\ pc = "returned"
    /\ Len(chat_history) = max_rounds
    /\ chat_history[2].assistant = "a"
    /\ chat_history[5].assistant = "b"
    /\ chat_history[max_rounds].assistant = ""
    /\ final_answer = "b"

C9_ProducerFailurePropagates ==
    producer_raised =>
        /\ pc = "raised"
        /\ exc = "ProducerFailure"
        /\ final_answer = ""

C9_Witness ==
    producer_raised /\ pc = "raised" /\ Len(chat_history) >= 2

-----------------------------------------------------------------------------
(* Properties of the session driver and of the web session *)

\* the templated text a degraded call would hand back
Placeholder == "feedback unavailable"

\* C6: when the run_society call of process_response or of
\* generate_final_report raises, the method does not raise: it returns
\* normally, with the templated placeholder as its text.
C6_DriverDegrades ==
    (ret.op \in {"process_response", "generate_final_report"} /\ ret.run_exc # "none")
        => (ret.exc = "none" /\ ret.text = Placeholder)

\* C7: when the Turn Producer raises during the process call for the third
\* question (index 2), that call returns without raising and the handler
\* that made it ends normally, the session having moved on to question 4.
C7_ScenarioB ==
    (ret.op = "process_response" /\ ret.idx = 2 /\ ret.run_exc = "ProducerFailure")
        => /\ ret.exc = "none"
           /\ web_ret.exc = "none"
           /\ current_question_idx = 3

\* C8: in a session of five questions, each processed at the cursor and
\* followed by one advance, the records are those of questions 0, 1, ... in
\* order, one per advance made; is_complete() is false after each of the
\* first four advances and true after the fifth, when there are exactly five
\* records, of questions 0,1,2,3,4.
C8_ScenarioA ==
    (st_initialized /\ Len(questions) = 5) =>
        /\ Len(responses) = current_question_idx
        /\ \A i \in 1..Len(responses) : responses[i].question_idx = i - 1
        /\ current_question_idx <= 5
        /\ is_interview_complete(Coach) <=> current_question_idx = 5
        /\ st_interview_complete <=> is_interview_complete(Coach)

C8_Witness ==
    /\ st_initialized
    /\ Len(questions) = 5
    /\ is_interview_complete(Coach)
    /\ Len(responses) = 5
    /\ [i \in 1..5 |-> responses[i].question_idx] = <<0, 1, 2, 3, 4>>

\* C10: a call of a public operation of the session driver ends in an
\* exception only when the Turn Producer failed; no argument and no state
\* of the driver makes a call raise.
C10_OnlyProducerFailureAborts ==
    ret.exc \in {"none", "ProducerFailure"}

\* the value get_current_question returns once no question is left
Sentinel == <<-1, "Interview complete">>

\* C11: get_current_question returns the cursor and the question under it
\* while the cursor is inside the list, and exactly (-1, "Interview
\* complete") once the cursor is past the last question; it never returns
\* that sentinel while a question remains.
C11_CurrentQuestion ==
    ret.op = "get_current_question" =>
        IF current_question_idx < Len(questions)
        THEN /\ <<ret.idx, ret.text>>
                    = <<current_question_idx, questions[current_question_idx + 1]>>
             /\ <<ret.idx, ret.text>> # Sentinel
        ELSE <<ret.idx, ret.text>> = Sentinel

C11_Witness ==
    /\ ret.op = "get_current_question"
    /\ <<ret.idx, ret.text>> = Sentinel
    /\ Len(questions) = 2
    /\ current_question_idx > Len(questions)

\* C12: every get_next_question call moves the cursor forward by exactly
\* one, also when the interview is already complete, leaves the questions and
\* the records alone, and returns what get_current_question returns in the
\* state it leaves.
C12_Advance ==
    [][ret'.op = "get_next_question" =>
          /\ current_question_idx' = current_question_idx + 1
          /\ <<ret'.idx, ret'.text>> = get_current_question(Coach')
          /\ UNCHANGED <<industry, job_role, question_count, questions, responses>>]_vars

C12_Witness ==
    /\ ret.op = "get_next_question"
    /\ <<ret.idx, ret.text>> = Sentinel
    /\ current_question_idx = Len(questions) + 1

\* C13: in every state of a coach built from a loaded list and a question
\* count, the held questions are the first question_count of the list (all
\* of it when it is shorter), is_interview_complete is true exactly when the
\* cursor has reached or passed the number of held questions, and exactly
\* when get_current_question returns the sentinel.
C13_CompleteIffPastList ==
    /\ Len(questions) <= question_count
    /\ is_interview_complete(Coach) <=> current_question_idx >= Len(questions)
    /\ is_interview_complete(Coach) <=> get_current_question(Coach) = Sentinel
    /\ ret.op = "is_interview_complete" =>
           (ret.flag <=> current_question_idx >= Len(questions))

C13_Witness ==
    /\ ret.op = "is_interview_complete"
    /\ ret.flag
    /\ current_question_idx = Len(questions)
    /\ Len(questions) < question_count

-----------------------------------------------------------------------------
(* Properties of format_feedback *)

\* pat occurs in text
Occurs(pat, text) ==
    \E i \in 1..(Len(text) - Len(pat) + 1) : SubSeq(text, i, i + Len(pat) - 1) = pat

\* text carries a marked Strengths heading, at either weight
Marked(text) ==
    Occurs(<<"##", " ", "Strengths">>, text) \/ Occurs(<<"###", " ", "Strengths">>, text)

\* the words that anchor the five sections, in the order of the sections;
\* every longer anchor ("Content relevance", "Areas for improvement", ...)
\* starts with one of them
AnchorWords ==
    <<{"Content", "Relevance"}, {"Technical"}, {"Communication"}, {"Strengths"},
      {"Areas", "Improvement", "Weaknesses"}>>

Located(text) == {s \in 1..5 : \E i \in 1..Len(text) : text[i] \in AnchorWords[s]}

\* C16: for a text without a marked Strengths heading, formatting the
\* formatted text again gives the formatted text back.
C16_Idempotent ==
    (fb_pc = "twice" /\ ~Marked(fb_raw)) => fb_formatted = format_feedback(fb_raw)

\* C17: for a text with none of the anchor words, the result is the title
\* line, a blank line and then the text itself, token for token.
C17_TotalFallback ==
    (fb_pc = "once" /\ Located(fb_raw) = {}) =>
        fb_formatted = <<"# Interview Response Feedback", "\n", "\n">> \o fb_raw

C17_Witness ==
    /\ fb_pc = "once"
    /\ fb_raw = <<" ", "w", "\n", "\n">>
    /\ fb_formatted = <<"# Interview Response Feedback", "\n", "\n", " ", "w", "\n", "\n">>

\* C18: a text that carries a marked Strengths heading, "## Strengths" or
\* "### Strengths", is returned unchanged, whatever anchors it also has.
C18_MarkedUnchanged ==
    (fb_pc = "once" /\ Marked(fb_raw)) => fb_formatted = fb_raw

C18_Witness ==
    /\ fb_pc = "once"
    /\ fb_raw = <<"##", " ", "Strengths", "Areas">>
    /\ fb_formatted = fb_raw

\* the heading lines of the five sections, in their fixed order
HeadingLines ==
    <<ContentHeading, TechnicalHeading, CommunicationHeading, StrengthsHeading,
      ImprovementHeading>>

\* the sections whose heading line stands at position i of out
HeadingAt(out, i) ==
    {s \in 1..5 : /\ i > 1
                  /\ out[i - 1] = "\n"
                  /\ i + Len(HeadingLines[s]) - 1 <= Len(out)
                  /\ SubSeq(out, i, i + Len(HeadingLines[s]) - 1) = HeadingLines[s]}

\* the elements of a set of numbers, in increasing order
Sorted(S) ==
    [k \in 1..Cardinality(S) |-> CHOOSE x \in S : Cardinality({y \in S : y < x}) = k - 1]

\* the sections of the heading lines of out, in the order they stand in it
HeadingsOf(out) ==
    LET at == Sorted({i \in 1..Len(out) : HeadingAt(out, i) # {}})
    IN  [k \in 1..Len(at) |-> CHOOSE s \in HeadingAt(out, at[k]) : TRUE]

\* C19: for a text without a marked Strengths heading and with at least one
\* anchor, the result starts with the title and its heading lines are those
\* of the sections whose anchor the text has, each once, in the fixed order
\* Content, Technical, Communication, Strengths, Areas for Improvement,
\* whatever the order of the anchors in the text.
C19_FixedOrder ==
    (fb_pc = "once" /\ ~Marked(fb_raw) /\ Located(fb_raw) # {}) =>
        /\ SubSeq(fb_formatted, 1, 3) = <<"# Interview Response Feedback", "\n", "\n">>
        /\ HeadingsOf(fb_formatted) = Sorted(Located(fb_raw))

C19_Witness ==
    /\ fb_pc = "once"
    /\ fb_raw = <<"Areas", "Strengths", "w", "Content">>
    /\ HeadingsOf(fb_formatted) = <<1, 4, 5>>

-----------------------------------------------------------------------------
(* Properties of process_response and generate_final_report *)

\* C14: a process_response call that succeeds appends exactly one record,
\* of the question under the given index, the given answer and the run's
\* final answer as it came, not formatted; it returns that same raw text as
\* raw_feedback and format_feedback of it as formatted_feedback.
C14_ProcessRecordsRaw ==
    [][(ret'.op = "process_response" /\ ret'.exc = "none") =>
          /\ Len(ret'.queries) = 1
          /\ responses' =
                 Append(responses,
                        [question_idx |-> ret'.idx,
                         question |-> Subscript(questions, ret'.idx),
                         response |-> ret'.queries[1].response,
                         feedback |-> ret'.run_answer])
          /\ ret'.text = ret'.run_answer
          /\ ret'.formatted = format_feedback(Words(ret'.run_answer))
          /\ Words(responses'[Len(responses')].feedback) # ret'.formatted
          /\ UNCHANGED <<industry, job_role, question_count, questions,
                         current_question_idx>>]_vars

C14_Witness ==
    /\ ret.op = "process_response"
    /\ ret.exc = "none"
    /\ ret.idx = 1
    /\ ret.text = "b"
    /\ Len(responses) = 1
    /\ responses[1] = [question_idx |-> 1, question |-> "q2", response |-> "x",
                       feedback |-> "b"]
    /\ ret.formatted = Title \o ContentHeading \o <<"w", "\n", "\n">>
                             \o StrengthsHeading
                             \o <<"w", "\n", "Content", " ", "w", "\n", "\n">>

\* C15: a generate_final_report call makes one run_society call, whose
\* query embeds every record made so far, in order; when that run returns,
\* the call returns its final answer as it came as the report, with the same
\* records in the same order and the coach's job_role and industry; the call
\* changes no record and does not move the cursor.
C15_FinalizeFrame ==
    [][ret'.op = "generate_final_report" =>
          /\ UNCHANGED objVars
          /\ Len(ret'.queries) = 1
          /\ ret'.queries[1].kind = "report"
          /\ ret'.queries[1].responses = responses
          /\ ret'.exc = "none" =>
                 /\ ret'.text = ret'.run_answer
                 /\ ret'.responses = responses
                 /\ ret'.job_role = job_role
                 /\ ret'.industry = industry]_vars

C15_Witness ==
    /\ ret.op = "generate_final_report"
    /\ ret.exc = "none"
    /\ ret.text = "b"
    /\ Len(ret.responses) = 2
    /\ ret.responses[1].question_idx = 1
    /\ ret.responses[2].question_idx = 0
    /\ ret.responses = responses
    /\ ret.job_role = "analyst"
    /\ ret.industry = "finance"

-----------------------------------------------------------------------------
(* The usage counter within one run *)

\* C20: the usage counter of a run starts at 0 and 0; both fields are never
\* negative and no step of the run makes either of them smaller.
C20_UsageMonotone ==
    /\ [](pc = "start" =>
              overall_token_count = [prompt_tokens |-> 0, completion_tokens |-> 0])
    /\ [](overall_token_count.prompt_tokens >= 0
              /\ overall_token_count.completion_tokens >= 0)
    /\ [][/\ overall_token_count'.prompt_tokens >= overall_token_count.prompt_tokens
          /\ overall_token_count'.completion_tokens
                 >= overall_token_count.completion_tokens]_vars

C20_Witness ==
    /\ pc = "loop"
    /\ steps = 3
    /\ overall_token_count = [prompt_tokens |-> 2, completion_tokens |-> 1]

-----------------------------------------------------------------------------
(* The transcript, the response shapes and the step inputs of a run *)

\* C21: the transcript only grows, by one Turn per society.step call that
\* returns, earlier turns staying as they are; while the run goes on and when
\* it has returned, the transcript holds as many turns as steps were made;
\* the round that signals termination has its Turn appended and its usage
\* counted before the loop stops.
C21_TranscriptAppendOnly ==
    /\ [](pc \in {"loop", "final", "returned"} => Len(chat_history) = steps)
    /\ []((first_term # -1 /\ pc \in {"final", "returned"}) =>
              /\ Len(chat_history) = first_term + 1
              /\ overall_token_count.prompt_tokens = sum_prompt
              /\ overall_token_count.completion_tokens = sum_completion)
    /\ [][\/ chat_history' = chat_history
          \/ /\ steps' = steps + 1
             /\ Len(chat_history') = Len(chat_history) + 1
             /\ SubSeq(chat_history', 1, Len(chat_history)) = chat_history]_vars

C21_Witness ==
    /\ pc = "returned"
    /\ first_term = 0
    /\ chat_history = <<[user |-> "", assistant |-> ""]>>
    /\ overall_token_count = [prompt_tokens |-> 1, completion_tokens |-> 0]

\* the responses of the latest round
LastA == last_pair[1]
LastU == last_pair[2]

\* the latest society.step call returned, and the producer never raised
Observed == last_pair # <<>> /\ ~producer_raised

\* a response without text: no msg attribute, or a msg that is None
NoText(r) == r.msg \in {Absent, None}

\* a response without a usage payload: no info, a None info, or an info
\* without "usage"
NoUsage(r) == r.info.kind \in {"absent", "none", "dict"}

\* C22: a round in which a response carries no text, the responses being
\* complete otherwise, does not make the run raise, and its Turn holds the
\* empty string for that side.
C22_NoTextTolerated ==
    (/\ Observed
     /\ NoText(LastA) \/ NoText(LastU)
     /\ LastA.info.kind # "none" /\ LastU.info.kind # "none"
     /\ LastA.terminated # "absent" /\ LastU.terminated # "absent")
        => /\ pc # "raised"
           /\ NoText(LastA) => chat_history[Len(chat_history)].assistant = ""
           /\ NoText(LastU) => chat_history[Len(chat_history)].user = ""

\* C23: a round in which a response has no usage payload, the responses
\* being complete otherwise, does not make the run raise.
C23_NoUsageTolerated ==
    (/\ Observed
     /\ NoUsage(LastA) \/ NoUsage(LastU)
     /\ ~NoText(LastA) /\ ~NoText(LastU)
     /\ LastA.terminated # "absent" /\ LastU.terminated # "absent")
        => pc # "raised"

\* C24: a round in which a response has no terminated attribute, the
\* responses having their text and a usage payload or a dict for info, does
\* not make the run raise.
C24_NoFlagTolerated ==
    (/\ Observed
     /\ LastA.terminated = "absent" \/ LastU.terminated = "absent"
     /\ ~NoText(LastA) /\ ~NoText(LastU)
     /\ LastA.info.kind \in {"dict", "usage"} /\ LastU.info.kind \in {"dict", "usage"})
        => pc # "raised"

\* the argument list of the one init_chat call a run makes for a prompt
\* that is neither None nor empty, and for the others
ExpectedInitArgs == IF prompt.given /\ prompt.text # "" THEN <<prompt.text>> ELSE <<>>

\* C25 as stated: society.init_chat is called once, with the prompt when one
\* is given; the first step is given the message it returned and every later
\* step the whole assistant response of the round before.
C25_NextInputIsResponse ==
    /\ [](Len(init_calls) = IF pc = "start" THEN 0 ELSE 1)
    /\ []((pc # "start" /\ prompt.given) => init_calls[1] = <<prompt.text>>)
    /\ [][(steps' = steps + 1 /\ steps >= 1) =>
              step_arg' = <<"response", LastA>>]_vars

\* C25 as amended: society.init_chat is called once, with the prompt when
\* one is given and is not empty, without argument otherwise; the first step
\* is given the message it returned and every later step the msg attribute
\* of the assistant response of the round before (the message object, None
\* when the response had none; not its text).
C25_NextInputIsMessage ==
    /\ [](Len(init_calls) = IF pc = "start" THEN 0 ELSE 1)
    /\ [](pc # "start" => init_calls[1] = ExpectedInitArgs)
    /\ [][(steps' = steps + 1 /\ steps = 0) =>
              step_arg' = IF ExpectedInitArgs = <<>> THEN Msg("default opening")
                          ELSE Msg(prompt.text)]_vars
    /\ [][(steps' = steps + 1 /\ steps >= 1) => step_arg' = LastA.msg]_vars

C25_Witness ==
    /\ steps = 2
    /\ step_arg = Msg("b")
    /\ prompt = Str("task")
    /\ init_calls = <<<<"task">>>>

-----------------------------------------------------------------------------
(* Records, failures and the end of a session *)

\* C26: every record a coach holds has a question_idx >= 0 and, as its
\* question, the question at that index of the coach's list, whatever
\* indexes process_response was called with.
C26_RecordsIndexed ==
    \A i \in 1..Len(responses) :
        /\ responses[i].question_idx >= 0
        /\ responses[i].question = questions[responses[i].question_idx + 1]

\* C28: a process_response call that raises (the run raised, or the index
\* is out of range) leaves every field of the coach as it was: no record is
\* appended or altered and the cursor keeps its value.
C28_FailedProcessFrame ==
    [][(ret'.op = "process_response" /\ ret'.exc # "none") =>
           /\ responses' = responses
           /\ current_question_idx' = current_question_idx
           /\ UNCHANGED objVars]_vars

C28_Witness ==
    /\ ret.op = "process_response"
    /\ ret.exc = "ProducerFailure"
    /\ ret.idx = 1
    /\ Len(responses) = 1
    /\ responses[1].question_idx = 1

\* C29: in a web session, whatever was submitted and however the runs
\* ended, the coach holds as many records as its cursor says, their
\* question_idx being 0, 1, 2, ... in order; a submit the handler rejects
\* as blank changes no field of the coach.
C29_WebRecordsFollowCursor ==
    /\ [](st_initialized =>
              /\ Len(responses) = current_question_idx
              /\ \A i \in 1..Len(responses) : responses[i].question_idx = i - 1)
    /\ [][(web_ret'.op = "submit_response" /\ web_ret'.outcome = "rejected") =>
              UNCHANGED objVars]_vars

C29_Witness ==
    /\ st_initialized
    /\ web_ret.op = "submit_response"
    /\ web_ret.outcome = "rejected"
    /\ Len(questions) = 3
    /\ current_question_idx = 2
    /\ [i \in 1..2 |-> responses[i].question_idx] = <<0, 1>>

\* C30: whenever the session says the interview is complete, it holds a
\* final report.
C30_CompleteHasReport == st_interview_complete => st_report # {}

-----------------------------------------------------------------------------
(* The preparation plan *)

\* C27: when its run_society call raises or returns None,
\* create_interview_prep_plan returns without raising, with the placeholder
\* answer naming the job role and the company, an empty transcript and a
\* usage counter that has the two keys prompt_tokens and completion_tokens,
\* both 0.
C27_FallbackIsUsageCounter ==
    (plan_pc = "done" /\ plan_args.result.kind \in {"raises", "none"}) =>
        /\ plan_result.exc = "none"
        /\ plan_result.answer = FallbackAnswer(plan_args.job_role, plan_args.company_name)
        /\ plan_result.chat_history = <<>>
        /\ DOMAIN plan_result.token_count = DOMAIN ZeroCount
        /\ plan_result.token_count = ZeroCount

====
